---- MODULE Spec2Model ----
(***************************************************************************)
(* Tile streaming around a moving camera (src/main.rs, the editor variant  *)
(* with paint mode, and src/main2.rs, the variant with two cameras).       *)
(*                                                                         *)
(* One frame of the Update schedule runs every system of the variant once. *)
(* Neither main() orders the systems (no .chain(), .before() or .after()), *)
(* so any order is possible, and with no ordering edge the schedule has no *)
(* sync point between them: the commands a system queues are applied when  *)
(* the schedule ends, and every tile query of the frame sees the entities  *)
(* of the frame's start.                                                   *)
(*                                                                         *)
(* World positions are integers (f32 values without a fraction, rounded to *)
(* the 24 significant bits of f32); noise samples are integers in          *)
(* hundredths.                                                             *)
(***************************************************************************)
EXTENDS Integers, FiniteSets, Sequences, TLC

VARIABLES
    variant,        \* "main" (src/main.rs) or "main2" (src/main2.rs)
    tiles,          \* TileMap.tiles: coordinate -> TileType
    spawned,        \* TileMap.spawned
    entities,       \* tile entities: id, Transform.translation, SerializableTile
    commands,       \* commands queued in this frame, not yet applied
    mode,           \* EditorMode
    modeChanged,    \* mode.is_changed() as update_camera_control will see it
    toggled,        \* toggle_mode switched the mode in this frame
    selected,       \* SelectedTileType
    panCamEnabled,  \* PanCam.enabled
    orthoVisible,   \* main2: visibility of the OrthoCamera
    perspVisible,   \* main2: visibility of the PerspCamera
    camPresent,     \* the camera queries yield the camera
    camPos,         \* Transform.translation (x, y) of the camera
    pending,        \* systems that have not run yet in this frame
    crashed,        \* the system that panicked, or NoPanic
    \* history of the run, read by the properties only
    frame,          \* "first" during the first frame, "later" afterwards
    visible,        \* visible_tiles of this frame's update_tiles run
    reshown,        \* coordinates that run spawned which were spawned
                    \* before and not painted since
    evaluatedCached,\* coordinates whose noise was evaluated for a spawn
                    \* although they had a cache entry
    shown,          \* coordinate -> category of its latest spawn, or
                    \* Repainted when it was painted since
    paintedEver,    \* coordinates that were painted
    fresh,          \* coordinates painted since the latest update_tiles run
    sample          \* the pointer sample paint_tiles took in this frame

\* TileMap and the command queue
mapVars == <<tiles, spawned, commands>>

\* the editor's resources and the cameras
editVars == <<mode, modeChanged, toggled, selected>>
camVars == <<panCamEnabled, orthoVisible, perspVisible>>

\* the history written by update_tiles, and by paint_tiles
streamHist == <<visible, reshown, evaluatedCached>>
paintHist == <<shown, paintedEver, fresh, sample>>

vars == <<variant, mapVars, entities, editVars, camVars, camPresent, camPos,
          pending, crashed, frame, streamHist, paintHist>>

(***************************************************************************)
(* Constants of the program and bounds of the model                        *)
(***************************************************************************)
TILE_SIZE == 32

\* The radius of the window; 60 in the source, scaled down here.
VIEW_RADIUS == 1

\* The camera stands at one of the positions CamAt(0) .. CamAt(MaxCamStep).
MaxCamStep == 1

WATER_BELOW == -20
GRASS_BELOW == 40

TileType == {"Grass", "Water", "Mountain"}

NoPanic == "none"

Repainted == "Repainted"

\* window.cursor_position() is None, or viewport_to_world is an Err
NoCursor == <<>>

MainSystems == {"update_tiles", "toggle_mode", "paint_tiles",
                "update_camera_control", "switch_tile_type"}

Main2Systems == {"update_tiles", "toggle_camera_projection"}

Systems(v) == IF v = "main" THEN MainSystems ELSE Main2Systems

\* Half a tile to the right and half a tile up at every step: (0,0), (16,16),
\* (32,32), (48,48), .. with the grid coordinates (0,0), (1,1), (1,1), (2,2), ..
CamAt(k) == <<k * (TILE_SIZE \div 2), k * (TILE_SIZE \div 2)>>

CamPositions == {CamAt(k) : k \in 0..MaxCamStep}

\* World positions the pointer is sampled at: (48,0) maps to the coordinate
\* (2,0), which enters and leaves the window as the camera moves.
PointerPositions == {<<48, 0>>}

(***************************************************************************)
(* Coordinate mapping                                                      *)
(***************************************************************************)
\* f32::round of num / den: to the nearest integer, halves away from zero.
Round(num, den) ==
    IF num >= 0 THEN (2 * num + den) \div (2 * den)
    ELSE 0 - ((2 * (0 - num) + den) \div (2 * den))

\* (v / TILE_SIZE).round() as i32
ToGrid(w) == Round(w, TILE_SIZE)

\* The spacing of the f32 values around the magnitude m: f32 has 24
\* significant bits, so the integers below 2^24 are exact, those below 2^25
\* are the even ones, and so on.
RECURSIVE F32Spacing(_, _)
F32Spacing(m, u) == IF m < 16777216 * u THEN u ELSE F32Spacing(m, 2 * u)

\* n as f32: the nearest f32 value, a tie going to the even significand.
F32(n) ==
    LET m == IF n < 0 THEN 0 - n ELSE n
        u == F32Spacing(m, 1)
        q == m \div u
        r == m % u
        k == IF 2 * r < u THEN q
             ELSE IF 2 * r > u THEN q + 1
             ELSE IF q % 2 = 0 THEN q ELSE q + 1
    IN  IF n < 0 THEN 0 - (k * u) ELSE k * u

\* A placement that forgets to scale by TILE_SIZE.
ToWorldUnscaled(c) == F32(c)

\* x as f32 * TILE_SIZE
ToWorld(c) == F32(c) * TILE_SIZE

GridOf(pos) == <<ToGrid(pos[1]), ToGrid(pos[2])>>

(***************************************************************************)
(* Terrain classifier                                                      *)
(***************************************************************************)
\* (simplex.get(..) + perlin.get(..)) / 2 in hundredths: a fixed function of
\* the coordinate standing for the seeded noise fields.
NoiseAt(c) == ((c[1] * 70 + c[2] * 30 + 100) % 200) - 100

Threshold(n) ==
    IF n < WATER_BELOW THEN "Water"
    ELSE IF n < GRASS_BELOW THEN "Grass"
    ELSE "Mountain"

Classify(c) == Threshold(NoiseAt(c))

\* tile_map.tiles.entry(c).or_insert_with(..): the map afterwards
get_or_generate(t, c) ==
    IF c \in DOMAIN t THEN t ELSE (c :> Classify(c)) @@ t

(***************************************************************************)
(* update_tiles                                                            *)
(***************************************************************************)
\* The range a..b of Rust, which leaves b out.
RangeExclusive(a, b) == a..(b - 1)

\* a..=b
RangeInclusive(a, b) == a..b

\* cam_pos of main.rs: the camera's translation, or the origin without one
cam_pos_or_default(present, pos) == IF present THEN pos ELSE <<0, 0>>

visible_tiles(center) ==
    {<<x, y>> :
        x \in RangeInclusive(center[1] - VIEW_RADIUS, center[1] + VIEW_RADIUS),
        y \in RangeInclusive(center[2] - VIEW_RADIUS, center[2] + VIEW_RADIUS)}

\* The coordinate update_tiles reads off a tile's transform.
TransformCoord(e) == GridOf(e.translation)

\* The coordinate paint_tiles reads off a tile's SerializableTile.
TileCoord(e) == <<e.tile.x, e.tile.y>>

DespawnCmd(e, sys) == [op |-> "despawn", id |-> e.id, by |-> sys]

\* A despawn pass that forgets tile_map.spawned.remove(&coord).
DespawnPassKeepsSpawned(tm, ents, vis) ==
    LET out == {e \in ents : TransformCoord(e) \notin vis}
    IN  [tiles    |-> tm.tiles,
         spawned  |-> tm.spawned,
         despawns |-> {DespawnCmd(e, "update_tiles") : e \in out}]

\* A despawn pass that also drops the cache entry of a despawned tile.
DespawnPassEvicts(tm, ents, vis) ==
    LET out  == {e \in ents : TransformCoord(e) \notin vis}
        gone == {TransformCoord(e) : e \in out}
    IN  [tiles    |-> [c \in DOMAIN tm.tiles \ gone |-> tm.tiles[c]],
         spawned  |-> tm.spawned \ gone,
         despawns |-> {DespawnCmd(e, "update_tiles") : e \in out}]

\* The first loop of update_tiles: every tile entity whose coordinate is
\* outside the window gets a despawn command and leaves spawned.
DespawnPass(tm, ents, vis) ==
    LET out == {e \in ents : TransformCoord(e) \notin vis}
    IN  [tiles    |-> tm.tiles,
         spawned  |-> tm.spawned \ {TransformCoord(e) : e \in out},
         despawns |-> {DespawnCmd(e, "update_tiles") : e \in out}]

\* The ids of the live and the reserved tile entities at the coordinate c.
UsedIds(ents, cmds, c) ==
    {e.id : e \in {f \in ents : f.id[1] = c[1] /\ f.id[2] = c[2]}}
        \cup {d.entity.id :
                d \in {k \in cmds : /\ k.op = "spawn"
                                    /\ k.entity.id[1] = c[1]
                                    /\ k.entity.id[2] = c[2]}}

\* commands.spawn reserves an entity id that no live or reserved entity has.
\* Ids are opaque: the id of a tile for c is written <<c[1], c[2], n>>, n the
\* least number that makes it new.
FreshId(ents, cmds, c) ==
    LET used == UsedIds(ents, cmds, c)
        n == CHOOSE k \in 0..Cardinality(used) :
                /\ <<c[1], c[2], k>> \notin used
                /\ \A m \in 0..(k - 1) : <<c[1], c[2], m>> \in used
    IN  <<c[1], c[2], n>>

NewTile(id, c, cat) ==
    [id          |-> id,
     translation |-> <<ToWorld(c[1]), ToWorld(c[2])>>,
     tile        |-> [x |-> c[1], y |-> c[2], tile_type |-> cat]]

SpawnCmd(e) == [op |-> "spawn", entity |-> e, by |-> "update_tiles"]

\* One iteration of the second loop of update_tiles for a coordinate c that
\* is not in spawned. st: tiles, spawned, commands, and hits, the coordinates
\* whose noise was evaluated although they had a cache entry.
SpawnOne(st, c, ents, v) ==
    LET miss     == c \notin DOMAIN st.tiles
        \* main.rs evaluates the noise inside or_insert_with's closure,
        \* main2.rs before the lookup
        noiseRun == IF v = "main" THEN miss ELSE TRUE
        t2       == get_or_generate(st.tiles, c)
        e        == NewTile(FreshId(ents, st.commands, c), c, t2[c])
    IN  [tiles    |-> t2,
         spawned  |-> st.spawned \cup {c},
         commands |-> st.commands \cup {SpawnCmd(e)},
         hits     |-> IF noiseRun /\ ~miss THEN st.hits \cup {c} ELSE st.hits]

\* The order the spawn loop is followed in: rows, then columns.
Before(a, b) == a[2] < b[2] \/ (a[2] = b[2] /\ a[1] < b[1])

First(S) == CHOOSE a \in S : \A b \in S \ {a} : Before(a, b)

RECURSIVE SpawnLoop(_, _, _, _)
SpawnLoop(st, todo, ents, v) ==
    IF todo = {} THEN st
    ELSE SpawnLoop(SpawnOne(st, First(todo), ents, v),
                   todo \ {First(todo)}, ents, v)

\* A spawn loop without the check of spawned.
SpawnPassNoSkip(st, vis, ents, v) == SpawnLoop(st, vis, ents, v)

\* The second loop of update_tiles: the coordinates of the window that are
\* in spawned are skipped (continue), the others are spawned.
SpawnPass(st, vis, ents, v) ==
    SpawnLoop(st, {c \in vis : c \notin st.spawned}, ents, v)

\* The whole of update_tiles for the window vis.
Reconcile(tm, cmds, ents, vis, v, hits) ==
    LET d == DespawnPass(tm, ents, vis)
    IN  SpawnPass([tiles    |-> d.tiles,
                   spawned  |-> d.spawned,
                   commands |-> cmds \cup d.despawns,
                   hits     |-> hits],
                  vis, ents, v)

(***************************************************************************)
(* paint_tiles                                                             *)
(***************************************************************************)
\* tile_map.tiles.insert(coord, selected_tile.0)
override_at(t, c, cat) == (c :> cat) @@ [k \in DOMAIN t \ {c} |-> t[k]]

\* A paint that removes the coordinate of the old tile from tiles instead of
\* spawned.
PaintAtDropsEntry(tm, ents, c, cat) ==
    LET found == {e \in ents : TileCoord(e) = c}
        t2    == override_at(tm.tiles, c, cat)
    IN  IF found = {}
        THEN [tiles |-> t2, spawned |-> tm.spawned, despawns |-> {}]
        ELSE [tiles    |-> [k \in DOMAIN t2 \ {c} |-> t2[k]],
              spawned  |-> tm.spawned,
              despawns |-> {DespawnCmd(CHOOSE e \in found : TRUE,
                                       "paint_tiles")}]

\* A paint that inserts under (tile_y, tile_x).
PaintAtSwapped(tm, ents, c, cat) ==
    LET found == {e \in ents : TileCoord(e) = c}
    IN  [tiles    |-> override_at(tm.tiles, <<c[2], c[1]>>, cat),
         spawned  |-> IF found = {} THEN tm.spawned ELSE tm.spawned \ {c},
         despawns |-> IF found = {} THEN {}
                      ELSE {DespawnCmd(CHOOSE e \in found : TRUE,
                                       "paint_tiles")}]

\* A paint that forgets tile_map.spawned.remove(&coord).
PaintAtKeepsSpawned(tm, ents, c, cat) ==
    LET found == {e \in ents : TileCoord(e) = c}
    IN  [tiles    |-> override_at(tm.tiles, c, cat),
         spawned  |-> tm.spawned,
         despawns |-> IF found = {} THEN {}
                      ELSE {DespawnCmd(CHOOSE e \in found : TRUE,
                                       "paint_tiles")}]

\* The body of paint_tiles once a pointer sample gave the coordinate c.
PaintAt(tm, ents, c, cat) ==
    LET found == {e \in ents : TileCoord(e) = c}
    IN  IF found = {}
        THEN [tiles    |-> override_at(tm.tiles, c, cat),
              spawned  |-> tm.spawned,
              despawns |-> {}]
        ELSE [tiles    |-> override_at(tm.tiles, c, cat),
              spawned  |-> tm.spawned \ {c},
              despawns |-> {DespawnCmd(CHOOSE e \in found : TRUE,
                                       "paint_tiles")}]

\* paint_tiles without its mode check.
PaintAlways(m) == TRUE

\* if *mode != EditorMode::Paint { return; }
PaintEnabled(m) == m = "Paint"

(***************************************************************************)
(* Applying the queued commands                                            *)
(***************************************************************************)
ApplyCommands(ents, cmds) ==
    LET gone == {c.id : c \in {d \in cmds : d.op = "despawn"}}
        born == {c.entity : c \in {d \in cmds : d.op = "spawn"}}
    IN  {e \in ents : e.id \notin gone} \cup born

(***************************************************************************)
(* Initial state: the resources main() inserts, the camera of init_app     *)
(***************************************************************************)
NoSample == [target |-> {}, applied |-> FALSE, cat |-> "Grass", pan |-> FALSE]

Init ==
    /\ variant \in {"main", "main2"}
    /\ tiles = <<>>
    /\ spawned = {}
    /\ entities = {}
    /\ commands = {}
    /\ mode = "Pan"
    /\ modeChanged = TRUE
    /\ toggled = FALSE
    /\ selected = "Grass"
    /\ panCamEnabled = TRUE
    /\ orthoVisible = TRUE
    /\ perspVisible = TRUE
    /\ camPresent = TRUE
    /\ camPos = <<0, 0>>
    /\ pending = Systems(variant)
    /\ crashed = NoPanic
    /\ frame = "first"
    /\ visible = {}
    /\ reshown = {}
    /\ evaluatedCached = {}
    /\ shown = <<>>
    /\ paintedEver = {}
    /\ fresh = {}
    /\ sample = NoSample

Runs(sys) ==
    /\ crashed = NoPanic
    /\ sys \in pending
    /\ pending' = pending \ {sys}

\* A system that returns without an effect.
Returns ==
    UNCHANGED <<variant, mapVars, entities, editVars, camVars, camPresent,
                camPos, crashed, frame, streamHist, paintHist>>

Panic(sys) ==
    /\ crashed' = sys
    /\ UNCHANGED <<variant, mapVars, entities, editVars, camVars, camPresent,
                   camPos, frame, streamHist, paintHist>>

(***************************************************************************)
(* The systems of the Update schedule                                      *)
(***************************************************************************)
SpawnsOf(cmds) == {c.entity : c \in {d \in cmds : d.op = "spawn"}}

Coords(ents) == {TileCoord(e) : e \in ents}

\* shown after the spawns of news
NoteSpawns(last, news) ==
    LET cs == {TileCoord(e) : e \in news}
    IN  [c \in DOMAIN last \cup cs |->
            IF c \in cs
            THEN (CHOOSE e \in news : TileCoord(e) = c).tile.tile_type
            ELSE last[c]]

UpdateTiles ==
    /\ Runs("update_tiles")
    /\ IF variant = "main2" /\ ~camPresent
       THEN \* main2.rs: cam_transform.unwrap()
            Panic("update_tiles")
       ELSE LET cam_pos == IF variant = "main"
                           THEN cam_pos_or_default(camPresent, camPos)
                           ELSE camPos
                vis == visible_tiles(GridOf(cam_pos))
                r   == Reconcile([tiles |-> tiles, spawned |-> spawned],
                                 commands, entities, vis, variant,
                                 evaluatedCached)
            IN  /\ tiles' = r.tiles
                /\ spawned' = r.spawned
                /\ commands' = r.commands
                /\ evaluatedCached' = r.hits
                /\ visible' = vis
                /\ reshown' = {c \in Coords(SpawnsOf(r.commands)
                                            \ SpawnsOf(commands)) :
                                  c \in DOMAIN shown /\ shown[c] # Repainted}
                /\ shown' = NoteSpawns(shown, SpawnsOf(r.commands)
                                                \ SpawnsOf(commands))
                /\ fresh' = {}
                /\ UNCHANGED <<variant, entities, editVars, camVars,
                               camPresent, camPos, crashed, frame, paintedEver,
                               sample>>

Toggled(m) == IF m = "Pan" THEN "Paint" ELSE "Pan"

ToggleMode ==
    \E tab \in BOOLEAN :
        /\ Runs("toggle_mode")
        /\ IF tab
           THEN mode' = Toggled(mode) /\ modeChanged' = TRUE /\ toggled' = TRUE
           ELSE UNCHANGED <<mode, modeChanged, toggled>>
        /\ UNCHANGED <<variant, mapVars, entities, selected, camVars,
                       camPresent, camPos, crashed, frame, streamHist,
                       paintHist>>

\* An update_camera_control that compares with the wrong mode.
PanEnabledInverted(m) == m = "Paint"

\* pan_cam.unwrap().enabled = *mode == EditorMode::Pan
PanEnabledFor(m) == m = "Pan"

UpdateCameraControl ==
    /\ Runs("update_camera_control")
    /\ IF ~modeChanged
       THEN Returns
       ELSE IF ~camPresent
       THEN \* query.single_mut() is an Err, and unwrap() panics
            Panic("update_camera_control")
       ELSE /\ panCamEnabled' = PanEnabledFor(mode)
            /\ modeChanged' = FALSE
            /\ UNCHANGED <<variant, mapVars, entities, mode, toggled, selected,
                           orthoVisible, perspVisible, camPresent, camPos,
                           crashed, frame, streamHist, paintHist>>

\* The if / else if chain over Digit1, Digit2, Digit3.
SelectedAfter(keys, sel) ==
    IF 1 \in keys THEN "Grass"
    ELSE IF 2 \in keys THEN "Water"
    ELSE IF 3 \in keys THEN "Mountain"
    ELSE sel

SwitchTileType ==
    \E keys \in SUBSET {1, 2, 3} :
        /\ Runs("switch_tile_type")
        /\ selected' = SelectedAfter(keys, selected)
        /\ UNCHANGED <<variant, mapVars, entities, mode, modeChanged, toggled,
                       camVars, camPresent, camPos, crashed, frame, streamHist,
                       paintHist>>

PaintTiles ==
    \E window \in BOOLEAN, pressed \in BOOLEAN,
       cursor \in PointerPositions \cup {NoCursor} :
        /\ Runs("paint_tiles")
        /\ LET held == window /\ camPresent /\ cursor # NoCursor /\ pressed
               c    == IF held THEN GridOf(cursor) ELSE <<0, 0>>
           IN  IF PaintEnabled(mode) /\ held
               THEN LET p == PaintAt([tiles |-> tiles, spawned |-> spawned],
                                     entities, c, selected)
                    IN  /\ tiles' = p.tiles
                        /\ spawned' = p.spawned
                        /\ commands' = commands \cup p.despawns
                        /\ shown' = IF c \in DOMAIN shown
                                    THEN [shown EXCEPT ![c] = Repainted]
                                    ELSE shown
                        /\ paintedEver' = paintedEver \cup {c}
                        /\ fresh' = fresh \cup {c}
                        /\ sample' = [target |-> {c}, applied |-> TRUE,
                                      cat |-> selected, pan |-> panCamEnabled]
               ELSE /\ sample' = [target  |-> IF held THEN {c} ELSE {},
                                  applied |-> FALSE, cat |-> "Grass",
                                  pan |-> FALSE]
                    /\ UNCHANGED <<mapVars, shown, paintedEver, fresh>>
        /\ UNCHANGED <<variant, entities, editVars, camVars, camPresent,
                       camPos, crashed, frame, streamHist>>

ToggleCameraProjection ==
    \E keyP \in BOOLEAN :
        /\ Runs("toggle_camera_projection")
        /\ IF ~keyP
           THEN Returns
           ELSE IF ~camPresent
           THEN \* single_mut() finds no OrthoCamera
                Panic("toggle_camera_projection")
           ELSE /\ orthoVisible' = ~orthoVisible
                /\ perspVisible' = ~perspVisible
                /\ panCamEnabled' = ~orthoVisible
                /\ UNCHANGED <<variant, mapVars, entities, editVars,
                               camPresent, camPos, crashed, frame, streamHist,
                               paintHist>>

\* The schedule ends: the queued commands are applied. Before the next
\* frame's systems run the camera may have been dragged (when PanCam is
\* enabled).
FrameEnds(positions) ==
    \E pos \in positions :
        /\ crashed = NoPanic
        /\ pending = {}
        /\ entities' = ApplyCommands(entities, commands)
        /\ commands' = {}
        /\ pending' = Systems(variant)
        /\ camPos' = IF panCamEnabled THEN pos ELSE camPos
        /\ frame' = "later"
        /\ visible' = {}
        /\ reshown' = {}
        /\ sample' = NoSample
        /\ toggled' = FALSE
        /\ UNCHANGED <<variant, tiles, spawned, mode, modeChanged, selected,
                       camVars, camPresent, crashed, evaluatedCached, shown,
                       paintedEver, fresh>>

NextFrame == FrameEnds(CamPositions)

Next ==
    \/ UpdateTiles
    \/ ToggleMode
    \/ PaintTiles
    \/ UpdateCameraControl
    \/ SwitchTileType
    \/ ToggleCameraProjection
    \/ NextFrame

Spec == Init /\ [][Next]_vars

(***************************************************************************)
(* The program never removes the camera of init_app. A second               *)
(* specification adds an environment that does, at the start of a frame:   *)
(* from then on the camera queries of the systems yield no camera.         *)
(***************************************************************************)
CameraLost ==
    /\ crashed = NoPanic
    /\ pending = Systems(variant)
    /\ camPresent
    /\ camPresent' = FALSE
    /\ UNCHANGED <<variant, mapVars, entities, editVars, camVars, camPos,
                   pending, crashed, frame, streamHist, paintHist>>

NextCameraLoss == Next \/ CameraLost

SpecCameraLoss == Init /\ [][NextCameraLoss]_vars

(***************************************************************************)
(* PanCam bounds the camera by min_x .. max_y, which init_app leaves at    *)
(* their defaults (unbounded). A third specification lets the camera be    *)
(* dragged between the origin and a place where f32 no longer holds every *)
(* integer: the window around the grid coordinate (2^24, 0).               *)
(***************************************************************************)
FarCamPositions == {CamAt(0), <<16777216 * TILE_SIZE, 0>>}

NextFrameFar == FrameEnds(FarCamPositions)

NextFarCamera ==
    \/ UpdateTiles
    \/ ToggleMode
    \/ PaintTiles
    \/ UpdateCameraControl
    \/ SwitchTileType
    \/ ToggleCameraProjection
    \/ NextFrameFar

SpecFarCamera == Init /\ [][NextFarCamera]_vars

(***************************************************************************)
(* Properties                                                              *)
(***************************************************************************)
\* The step is a run of the system sys.
Ran(sys) == sys \in pending /\ sys \notin pending'

OnePerCoord(ents) ==
    \A e1 \in ents, e2 \in ents : TileCoord(e1) = TileCoord(e2) => e1 = e2

Abs(n) == IF n < 0 THEN 0 - n ELSE n

Max(a, b) == IF a >= b THEN a ELSE b

Chebyshev(p, q) == Max(Abs(p[1] - q[1]), Abs(p[2] - q[2]))

WindowSize == (2 * VIEW_RADIUS + 1) * (2 * VIEW_RADIUS + 1)

\* The coordinates around the centre ctr, two beyond the window on each side.
Around(ctr) ==
    {<<x, y>> : x \in (ctr[1] - VIEW_RADIUS - 2)..(ctr[1] + VIEW_RADIUS + 2),
                y \in (ctr[2] - VIEW_RADIUS - 2)..(ctr[2] + VIEW_RADIUS + 2)}

C2_CacheImmutability ==
    [][\A e \in SpawnsOf(commands') \ SpawnsOf(commands) :
          (TileCoord(e) \in DOMAIN shown /\ shown[TileCoord(e)] # Repainted)
              => e.tile.tile_type = shown[TileCoord(e)]]_vars

\* A coordinate that had left the window is spawned again in this frame,
\* showing what it showed before, a category the classifier does not give it.
C2_Witness ==
    \E e \in SpawnsOf(commands) :
        /\ TileCoord(e) \in reshown
        /\ TileCoord(e) \notin Coords(entities)
        /\ TileCoord(e) \in paintedEver
        /\ e.tile.tile_type # Classify(TileCoord(e))

\* C3. No step removes a key of TileMap.tiles, and an entry changes only in
\* a run of paint_tiles that paints its coordinate with the selected
\* category: the despawns of update_tiles and of paint_tiles leave every
\* other entry as it was.
C3_CacheOnlyGrows ==
    [][/\ DOMAIN tiles \subseteq DOMAIN tiles'
       /\ \A c \in DOMAIN tiles :
            tiles'[c] # tiles[c] =>
                /\ Ran("paint_tiles")
                /\ sample'.applied
                /\ sample'.target = {c}
                /\ tiles'[c] = selected]_vars

\* update_tiles and paint_tiles both queued a despawn in this frame, and the
\* cache still holds the coordinates of the despawned tiles.
C3_Witness ==
    /\ \E d \in commands : d.op = "despawn" /\ d.by = "update_tiles"
    /\ \E d \in commands : d.op = "despawn" /\ d.by = "paint_tiles"
    /\ \A e \in entities : TileCoord(e) \in DOMAIN tiles
    /\ \E e \in entities : TileCoord(e) \notin spawned

\* C4. Window correctness: the window update_tiles built for the camera's
\* grid coordinate has (2R+1)^2 members, and holds a coordinate if and only
\* if its Chebyshev distance to the centre is at most R; in the first frame
\* the run spawns (2R+1)^2 tiles around (0,0).
C4_WindowCorrectness ==
    ("update_tiles" \notin pending /\ crashed # "update_tiles" /\ camPresent) =>
        /\ Cardinality(visible) = WindowSize
        /\ visible \subseteq Around(GridOf(camPos))
        /\ \A p \in Around(GridOf(camPos)) :
              p \in visible <=> Chebyshev(p, GridOf(camPos)) <= VIEW_RADIUS
        /\ frame = "first" =>
              /\ GridOf(camPos) = <<0, 0>>
              /\ Cardinality(SpawnsOf(commands)) = WindowSize
              /\ Coords(SpawnsOf(commands)) = visible

\* update_tiles has built the window of a camera away from the origin; the
\* corner at distance exactly R is in it.
C4_Witness ==
    /\ "update_tiles" \notin pending
    /\ frame = "later"
    /\ GridOf(camPos) # <<0, 0>>
    /\ <<GridOf(camPos)[1] + VIEW_RADIUS, GridOf(camPos)[2] - VIEW_RADIUS>>
          \in visible
    /\ Cardinality(visible) = WindowSize

\* The frame has started: the commands of the frame before are applied.
FrameStart == pending = Systems(variant) /\ frame = "later"

\* C5. Paint scenario: a paint of K at c sets tiles[c] to K, and once an
\* update_tiles pass has run after the paint a live c is shown by a tile
\* entity of the painted category.
C5_PaintScenario ==
    /\ sample.applied =>
          \A c \in sample.target : c \in DOMAIN tiles /\ tiles[c] = sample.cat
    /\ FrameStart =>
          \A c \in (paintedEver \ fresh) \cap spawned :
              \E e \in entities :
                  TileCoord(e) = c /\ e.tile.tile_type = tiles[c]

\* C6. Order within a frame: paint_tiles never runs before update_tiles.
C6_TickOrder ==
    (variant = "main" /\ "paint_tiles" \notin pending)
        => "update_tiles" \notin pending

\* C7. The noise is evaluated at most once per coordinate: never for a spawn
\* of a coordinate that has a cache entry.
C7_ClassifiedOnce == evaluatedCached = {}

\* C8. Missing viewpoint: without a camera update_tiles does not panic, and
\* reconciles against the window around (0,0).
C8_MissingViewpoint ==
    (~camPresent /\ "update_tiles" \notin pending) =>
        /\ crashed # "update_tiles"
        /\ visible = visible_tiles(<<0, 0>>)
        /\ spawned = visible
        /\ Coords(ApplyCommands(entities, commands)) = visible
        /\ spawned \subseteq DOMAIN tiles

\* C9. In Pan mode a run of paint_tiles changes neither the cache nor the
\* live set nor a tile entity, and queues no command.
C9_PanIgnoresPaint ==
    [][(Ran("paint_tiles") /\ mode = "Pan") =>
          UNCHANGED <<tiles, spawned, entities, commands>>]_vars

\* paint_tiles has run in Pan mode with the pointer held over a live tile of
\* another category than the selected one.
C9_Witness ==
    /\ "paint_tiles" \notin pending
    /\ "toggle_mode" \in pending
    /\ "switch_tile_type" \in pending
    /\ mode = "Pan"
    /\ ~sample.applied
    /\ sample.target # {}
    /\ sample.target \subseteq spawned
    /\ \A c \in sample.target : tiles[c] # selected

\* C10. At the end of every frame PanCam.enabled is false in Paint mode and
\* true in Pan mode, and no paint is applied while PanCam is enabled.
C10_PaintDisablesPan ==
    variant = "main" =>
        /\ (pending = {} /\ crashed = NoPanic) =>
              (panCamEnabled <=> mode = "Pan")
        /\ sample.applied => ~sample.pan

F32Exact(c) == Abs(c[1]) <= 16777216 /\ Abs(c[2]) <= 16777216

\* C12 as claimed. Round trip for every grid coordinate: every coordinate
\* the program handled maps to its world placement and back to itself, and
\* the coordinate the despawn pass reads off a tile's transform is the one
\* the tile was spawned under.
C12_RoundTripEverywhere ==
    /\ \A c \in DOMAIN tiles \cup spawned :
          GridOf(<<ToWorld(c[1]), ToWorld(c[2])>>) = c
    /\ \A e \in entities \cup SpawnsOf(commands) :
          TransformCoord(e) = TileCoord(e)

\* C12 as amended. The round trip holds for the grid coordinates of
\* magnitude up to 2^24, those f32 holds exactly.
C12_RoundTrip ==
    /\ \A c \in DOMAIN tiles \cup spawned :
          F32Exact(c) => GridOf(<<ToWorld(c[1]), ToWorld(c[2])>>) = c
    /\ \A e \in entities \cup SpawnsOf(commands) :
          F32Exact(TileCoord(e)) => TransformCoord(e) = TileCoord(e)

\* Tiles are live at 2^24 - 1 and at 2^24, and near the origin at a negative
\* coordinate, and update_tiles has read their transforms in this frame.
C12_Witness ==
    /\ frame = "later"
    /\ "update_tiles" \notin pending
    /\ \E e \in entities :
          TileCoord(e)[1] = 16777215 /\ TileCoord(e) \in spawned
    /\ \E e \in entities :
          TileCoord(e)[1] = 16777216 /\ TileCoord(e) \in spawned
    /\ <<-1, -1>> \in DOMAIN tiles

\* C13 as claimed. Cache entry lifecycle: every cached coordinate has been
\* inside a window (the spawn pass is the only path that creates entries),
\* and a cached coordinate that was never painted holds the classifier's
\* category.
C13_CreatedBySpawnPassOnly ==
    \A c \in DOMAIN tiles :
        /\ c \in DOMAIN shown
        /\ c \notin paintedEver => tiles[c] = Classify(c)

\* C13 as amended. Every cached coordinate has been inside a window or has
\* been painted (a paint inserts the entry when there is none), and a cached
\* coordinate that was never painted holds the classifier's category.
C13_EntryLifecycle ==
    \A c \in DOMAIN tiles :
        /\ c \in DOMAIN shown \/ c \in paintedEver
        /\ c \notin paintedEver => tiles[c] = Classify(c)

\* The cache holds a painted coordinate that no window has held, with a
\* category the classifier does not give it, next to entries the spawn pass
\* created.
C13_Witness ==
    /\ \E c \in DOMAIN tiles :
          /\ c \in paintedEver
          /\ c \notin DOMAIN shown
          /\ tiles[c] # Classify(c)
    /\ \E c \in DOMAIN tiles : c \notin paintedEver /\ c \in DOMAIN shown

\* C14. When a frame ends, with its commands applied, every tile entity
\* carries the category the cache holds for its coordinate.
C14_EntitiesShowCache ==
    (pending = {} /\ crashed = NoPanic) =>
        \A e \in ApplyCommands(entities, commands) :
            /\ TileCoord(e) \in DOMAIN tiles
            /\ e.tile.tile_type = tiles[TileCoord(e)]

\* C15. Camera-control synchronisation in main.rs: when a frame ends in
\* which the mode was not toggled, PanCam.enabled equals (mode = Pan), so a
\* toggle is followed up by the end of the next frame at the latest; and
\* once they are equal they stay equal in every step that leaves the mode.
C15_CameraControlSync ==
    [][variant = "main" =>
          /\ (pending' = {} /\ crashed' = NoPanic /\ ~toggled') =>
                (panCamEnabled' <=> mode' = "Pan")
          /\ (mode' = mode /\ (panCamEnabled <=> mode = "Pan")) =>
                (panCamEnabled' <=> mode' = "Pan")]_vars

\* A frame ends without a toggle in which a paint was applied while PanCam
\* was still enabled: the mode was switched to Paint in the frame before,
\* after update_camera_control had run, and PanCam is disabled by now.
C15_Witness ==
    /\ variant = "main"
    /\ pending = {}
    /\ ~toggled
    /\ mode = "Paint"
    /\ sample.applied
    /\ sample.pan
    /\ ~panCamEnabled

C17_PaintNotLive ==
    [][/\ (Ran("paint_tiles") /\ sample'.applied) =>
            \A c \in sample'.target :
                c \notin spawned =>
                    /\ spawned' = spawned
                    /\ entities' = entities
                    /\ commands' = commands
                    /\ DOMAIN tiles' = DOMAIN tiles \cup {c}
                    /\ tiles'[c] = selected
                    /\ \A k \in DOMAIN tiles \ {c} : tiles'[k] = tiles[k]
       /\ \A n \in SpawnsOf(commands') \ SpawnsOf(commands) :
            n.tile.tile_type = tiles'[TileCoord(n)]]_vars

\* C18. No tile entity gets two despawn requests: the despawns queued in a
\* frame are for different entities, all of them alive.
C18_OneDespawnPerEntity ==
    /\ \A d1 \in commands, d2 \in commands :
          (d1.op = "despawn" /\ d2.op = "despawn" /\ d1.id = d2.id) => d1 = d2
    /\ \A d \in commands :
          d.op = "despawn" => \E e \in entities : e.id = d.id

====
